---- MODULE Spec2Model ----
(***************************************************************************)
(* Model of src/scraping/wiki_fetch.py: the segmenter                       *)
(* (split_into_section_paragraphs, HEADING_RE), the identifier key          *)
(* (make_paragraph_id), the dedup ledger (load_existing_ids), the csv       *)
(* writer (append_rows) and the per-title loop of main.                     *)
(*                                                                         *)
(* A python str is a sequence of one-character strings, so that strip,     *)
(* split, the regular expression and the "||" join are computed the way    *)
(* the code computes them.                                                  *)
(***************************************************************************)
EXTENDS Integers, Sequences, FiniteSets, TLC

VARIABLES
    \* ---- segmenter (one call of split_into_section_paragraphs) ----
    seg_text,            \* the argument extract_text
    seg_pc,              \* "call" | "loop" | "returned"
    blocks,              \* re.split result
    bi,                  \* index of the next block of the for loop
    current_section,
    per_section_index,
    rows,
    \* ---- pipeline (main, one or more invocations on one output csv) ----
    file_exists,         \* out_csv.exists()
    table,               \* the csv file, one record per csv row, header included
    pc,                  \* "idle" | "loop" | "done"
    titles,
    ti,                  \* index of the next title of the for loop
    min_chars,
    max_paragraphs_per_article,
    existing_ids,
    all_new_rows,
    total_added,
    fetched,             \* what the last call of fetch_plaintext_extract did
    kept,
    added,
    rows_before,         \* number of data rows in the csv when the invocation began
    fetches,             \* titles handed to invocations so far (bounds the model)
    plan                 \* the (title, page, settings) a re-run repeats

segvars == <<seg_text, seg_pc, blocks, bi, current_section, per_section_index, rows>>

mainvars == <<file_exists, table, pc, titles, ti, min_chars, max_paragraphs_per_article,
              existing_ids, all_new_rows, total_added, fetched, kept, added,
              rows_before, fetches, plan>>

vars == <<segvars, mainvars>>

-----------------------------------------------------------------------------
(* Bounds *)

\* longest text of the exhaustive character-level segmenter inputs
MaxTextLen == 6

\* most blocks of the block-level segmenter inputs
MaxBlocks == 7

\* titles handed to main over all invocations of one behaviour
MaxFetches == 3

\* largest --max-paragraphs-per-article tried
MaxCap == 2

-----------------------------------------------------------------------------
(* Strings *)

NL == "\n"

\* the whitespace of \s and of str.strip() that the model's alphabet holds
IsSpace(c) == c \in {" ", NL}

Min(a, b) == IF a <= b THEN a ELSE b

\* str.strip()
Strip(s) ==
    IF \A i \in 1..Len(s) : IsSpace(s[i]) THEN <<>>
    ELSE LET first == CHOOSE i \in 1..Len(s) :
                          ~IsSpace(s[i]) /\ \A j \in 1..(i - 1) : IsSpace(s[j])
             last == CHOOSE i \in 1..Len(s) :
                          ~IsSpace(s[i]) /\ \A j \in (i + 1)..Len(s) : IsSpace(s[j])
         IN SubSeq(s, first, last)

HasNewline(s) == \E i \in 1..Len(s) : s[i] = NL

\* str.replace(old, new) for one-character old and new
RECURSIVE Replace(_, _, _)
Replace(s, old, new) ==
    IF s = <<>> THEN <<>>
    ELSE <<IF Head(s) = old THEN new ELSE Head(s)>> \o Replace(Tail(s), old, new)

Digits == <<"0", "1", "2", "3", "4", "5", "6", "7", "8", "9">>

\* str(n) for n >= 0
RECURSIVE Str(_)
Str(n) == IF n < 10 THEN <<Digits[n + 1]>>
          ELSE Str(n \div 10) \o <<Digits[(n % 10) + 1]>>

-----------------------------------------------------------------------------
(* Segmenter *)

Lead == <<"L", "e", "a", "d">>

\* Where the separator \n\s*\n that starts at i ends; i when none starts there.
\* \s* is greedy, so the separator runs to the last newline of the whitespace run.
SepEnd(t, i) ==
    LET ends == {j \in (i + 1)..Len(t) :
                    t[j] = NL /\ \A m \in (i + 1)..(j - 1) : IsSpace(t[m])}
    IN IF t[i] = NL /\ ends # {}
       THEN CHOOSE j \in ends : \A m \in ends : m <= j
       ELSE i

\* re.split(r"\n\s*\n", t), scanning from position i with the current piece
\* starting at position start
RECURSIVE SplitFrom(_, _, _)
SplitFrom(t, start, i) ==
    IF i > Len(t) THEN <<SubSeq(t, start, Len(t))>>
    ELSE IF SepEnd(t, i) > i
         THEN <<SubSeq(t, start, i - 1)>> \o SplitFrom(t, SepEnd(t, i) + 1, SepEnd(t, i) + 1)
         ELSE SplitFrom(t, start, i + 1)

ReSplit(t) == SplitFrom(t, 1, 1)

\* A marker run of k "=" fits both ends of the block, the two runs do not
\* overlap, and what lies between matches \s*(.*?)\s* ("." matches no newline,
\* \s does: no newline may remain once the middle is trimmed).
MarkerFits(block, k) ==
    /\ 2 * k <= Len(block)
    /\ \A i \in 1..k : block[i] = "="
    /\ \A i \in (Len(block) - k + 1)..Len(block) : block[i] = "="
    /\ ~HasNewline(Strip(SubSeq(block, k + 1, Len(block) - k)))

\* The regular expression ^(={2,})\s*(.*?)\s*\1$
HEADING_RE_TwoOrMore(block) ==
    LET ks == {k \in 2..Len(block) : MarkerFits(block, k)}
    IN IF ks = {} THEN [matched |-> FALSE, group1 |-> 0, group2 |-> <<>>]
       ELSE LET k == CHOOSE x \in ks : \A y \in ks : y <= x
            IN [matched |-> TRUE, group1 |-> k,
                group2 |-> Strip(SubSeq(block, k + 1, Len(block) - k))]

\* HEADING_RE.match(block) for a trimmed block: ^(=+)\s*(.*?)\s*\1$.
\* (=+) is greedy and backtracks, so the first match has the longest run that
\* fits; group 2 is lazy between two greedy \s*, so it is the trimmed middle.
HEADING_RE(block) ==
    LET ks == {k \in 1..Len(block) : MarkerFits(block, k)}
    IN IF ks = {} THEN [matched |-> FALSE, group1 |-> 0, group2 |-> <<>>]
       ELSE LET k == CHOOSE x \in ks : \A y \in ks : y <= x
            IN [matched |-> TRUE, group1 |-> k,
                group2 |-> Strip(SubSeq(block, k + 1, Len(block) - k))]

\* per_section_index.get(section, 0)
DictGet(d, key) == IF key \in DOMAIN d THEN d[key] ELSE 0

\* d[key] = value
DictSet(d, key, value) ==
    [x \in (DOMAIN d) \cup {key} |-> IF x = key THEN value ELSE d[x]]

EmptyDict == [x \in {} |-> 0]

SegStart == [current_section |-> Lead, per_section_index |-> EmptyDict, rows |-> <<>>]

\* which branch of the loop body the block b takes
BlockKind(b) ==
    IF Strip(b) = <<>> THEN "blank"
    ELSE IF HEADING_RE(Strip(b)).matched THEN "heading"
    ELSE "paragraph"

\* the loop body with the counters forgotten at every heading
SegBlockRestart(st, b) ==
    LET block == Strip(b)
        m == HEADING_RE(block)
    IN IF block = <<>> THEN st
       ELSE IF m.matched
            THEN [st EXCEPT !.current_section =
                               IF Strip(m.group2) # <<>> THEN Strip(m.group2) ELSE @,
                            !.per_section_index = EmptyDict]
            ELSE LET idx == DictGet(st.per_section_index, st.current_section)
                 IN [st EXCEPT !.rows = Append(@, <<st.current_section, block, idx>>),
                               !.per_section_index = DictSet(@, st.current_section, idx + 1)]

\* one iteration of the for loop of split_into_section_paragraphs
SegBlock(st, b) ==
    LET block == Strip(b)
        m == HEADING_RE(block)
    IN IF block = <<>> THEN st
       ELSE IF m.matched
            THEN [st EXCEPT !.current_section =
                               IF Strip(m.group2) # <<>> THEN Strip(m.group2) ELSE @]
            ELSE LET idx == DictGet(st.per_section_index, st.current_section)
                 IN [st EXCEPT !.rows = Append(@, <<st.current_section, block, idx>>),
                               !.per_section_index = DictSet(@, st.current_section, idx + 1)]

RECURSIVE SegLoop(_, _, _)
SegLoop(bs, i, st) ==
    IF i > Len(bs) THEN st ELSE SegLoop(bs, i + 1, SegBlock(st, bs[i]))

split_into_section_paragraphs(extract_text) ==
    IF extract_text = <<>> THEN <<>>
    ELSE SegLoop(ReSplit(Strip(extract_text)), 1, SegStart).rows

-----------------------------------------------------------------------------
(* The segmenter, one call, step by step *)

SegAlphabet == {"=", "a", " ", NL}

CharTexts == UNION {[1..n -> SegAlphabet] : n \in 0..MaxTextLen}

BlockPool == {<<"=", "=", "a", "=", "=">>, <<"=", "=", "b", "=", "=">>, <<"x">>}

RECURSIVE JoinBlocks(_)
JoinBlocks(bs) ==
    IF Len(bs) = 1 THEN bs[1] ELSE bs[1] \o <<NL, NL>> \o JoinBlocks(Tail(bs))

BlockTexts == {JoinBlocks(bs) : bs \in UNION {[1..n -> BlockPool] : n \in 1..MaxBlocks}}

MainIdle ==
    /\ file_exists = FALSE
    /\ table = <<>>
    /\ pc = "idle"
    /\ titles = <<>>
    /\ ti = 1
    /\ min_chars = 0
    /\ max_paragraphs_per_article = 0
    /\ existing_ids = {}
    /\ all_new_rows = <<>>
    /\ total_added = 0
    /\ fetched = [raised |-> TRUE, extract |-> <<>>]
    /\ kept = 0
    /\ added = 0
    /\ rows_before = 0
    /\ fetches = 0
    /\ plan = <<>>

SegIdle ==
    /\ seg_pc = "call"
    /\ blocks = <<>>
    /\ bi = 1
    /\ current_section = Lead
    /\ per_section_index = EmptyDict
    /\ rows = <<>>

SegInit ==
    /\ seg_text \in CharTexts \cup BlockTexts
    /\ SegIdle
    /\ MainIdle

\* lines 55-56: an empty text returns at once
SegEmpty ==
    /\ seg_pc = "call"
    /\ seg_text = <<>>
    /\ seg_pc' = "returned"
    /\ UNCHANGED <<seg_text, blocks, bi, current_section, per_section_index, rows>>
    /\ UNCHANGED mainvars

\* lines 59-62
SegEnter ==
    /\ seg_pc = "call"
    /\ seg_text # <<>>
    /\ blocks' = ReSplit(Strip(seg_text))
    /\ bi' = 1
    /\ current_section' = SegStart.current_section
    /\ per_section_index' = SegStart.per_section_index
    /\ rows' = SegStart.rows
    /\ seg_pc' = "loop"
    /\ UNCHANGED seg_text
    /\ UNCHANGED mainvars

SegIterate(kind) ==
    /\ seg_pc = "loop"
    /\ bi <= Len(blocks)
    /\ BlockKind(blocks[bi]) = kind
    /\ LET st == SegBlock([current_section |-> current_section,
                           per_section_index |-> per_section_index,
                           rows |-> rows], blocks[bi])
       IN /\ current_section' = st.current_section
          /\ per_section_index' = st.per_section_index
          /\ rows' = st.rows
    /\ bi' = bi + 1
    /\ UNCHANGED <<seg_text, seg_pc, blocks>>
    /\ UNCHANGED mainvars

\* lines 65-67
SegBlank == SegIterate("blank")

\* lines 70-74
SegHeading == SegIterate("heading")

\* lines 76-78
SegParagraph == SegIterate("paragraph")

\* line 80
SegReturn ==
    /\ seg_pc = "loop"
    /\ bi > Len(blocks)
    /\ seg_pc' = "returned"
    /\ UNCHANGED <<seg_text, blocks, bi, current_section, per_section_index, rows>>
    /\ UNCHANGED mainvars

SegNext == SegEmpty \/ SegEnter \/ SegBlank \/ SegHeading \/ SegParagraph \/ SegReturn

SpecSeg == SegInit /\ [][SegNext]_vars

\* the step-by-step call returns what the function, used as an operator, gives
SegAgrees == seg_pc = "returned" => rows = split_into_section_paragraphs(seg_text)

-----------------------------------------------------------------------------
(* Identifier, ledger, writer *)

KeySep == <<"|", "|">>

\* text[:120]
PrefixLen == 120

\* uuid.uuid5(uuid.NAMESPACE_URL, name): a fixed hash of the name, taken to be
\* free of collisions, so the identifier stands for the name it was made from
uuid5(name) == <<"u", "u", "i", "d", "5", ":">> \o name

\* f"{title}||{section}||{paragraph_index}||{text[:120]}"
make_paragraph_id(title, section, paragraph_index, text) ==
    uuid5(title \o KeySep \o section \o KeySep \o Str(paragraph_index) \o KeySep
          \o SubSeq(text, 1, Min(Len(text), PrefixLen)))

WikiUrl == <<"h", "t", "t", "p", "s", ":", "/", "/", "e", "n", ".", "w", "i", "k", "i",
             "p", "e", "d", "i", "a", ".", "o", "r", "g", "/", "w", "i", "k", "i", "/">>

\* the dict of lines 183-190
Row(pid, title, section, para_idx, para) ==
    [id |-> pid,
     title |-> title,
     url |-> WikiUrl \o Replace(title, " ", "_"),
     section |-> section,
     paragraph_index |-> Str(para_idx),
     text |-> Strip(Replace(para, NL, " "))]

\* writer.writeheader(): the field names of line 154
HeaderRow ==
    [id |-> <<"i", "d">>,
     title |-> <<"t", "i", "t", "l", "e">>,
     url |-> <<"u", "r", "l">>,
     section |-> <<"s", "e", "c", "t", "i", "o", "n">>,
     paragraph_index |-> <<"p", "a", "r", "a", "g", "r", "a", "p", "h", "_", "i", "n",
                           "d", "e", "x">>,
     text |-> <<"t", "e", "x", "t">>]

\* the data rows of a csv file: all but the header line
DataRows(lines) == IF lines = <<>> THEN <<>> ELSE Tail(lines)

\* a ledger that takes the first data row for a second header
load_existing_ids_SkipFirst(exists, lines) ==
    IF ~exists THEN {}
    ELSE {lines[i].id : i \in {j \in 3..Len(lines) : lines[j].id # <<>>}}

\* csv.DictReader takes the first line for the field names; the rows after it
\* that hold an id give the ledger
load_existing_ids(exists, lines) ==
    IF ~exists THEN {}
    ELSE {lines[i].id : i \in {j \in 2..Len(lines) : lines[j].id # <<>>}}

\* a writer that writes the header on every call
append_rows_HeaderAlways(exists, lines, rs) == lines \o <<HeaderRow>> \o rs

\* the file after append_rows(out_csv, rs, fieldnames); the call returns Len(rs)
append_rows(exists, lines, rs) ==
    (IF exists THEN lines ELSE <<HeaderRow>>) \o rs

\* the slice with its start forgotten
Unflushed_All(new_rows, flushed) == new_rows

\* all_new_rows[total_added:]
Unflushed(new_rows, flushed) == SubSeq(new_rows, flushed + 1, Len(new_rows))

\* the cap test off by one
CapReached_Late(n, cap) == n > cap

\* line 174: kept >= args.max_paragraphs_per_article
CapReached(n, cap) == n >= cap

\* the loop of lines 173-193 from paragraph i on; acc holds kept, existing_ids
\* and all_new_rows
RECURSIVE KeepLoop(_, _, _, _)
KeepLoop(title, sec_paras, i, acc) ==
    IF i > Len(sec_paras) \/ CapReached(acc.kept, max_paragraphs_per_article) THEN acc
    ELSE LET section == sec_paras[i][1]
             para == sec_paras[i][2]
             para_idx == sec_paras[i][3]
             pid == make_paragraph_id(title, section, para_idx, para)
         IN IF Len(para) < min_chars THEN KeepLoop(title, sec_paras, i + 1, acc)
            ELSE IF pid \in acc.existing_ids THEN KeepLoop(title, sec_paras, i + 1, acc)
            ELSE KeepLoop(title, sec_paras, i + 1,
                          [kept |-> acc.kept + 1,
                           existing_ids |-> acc.existing_ids \cup {pid},
                           all_new_rows |-> Append(acc.all_new_rows,
                                                   Row(pid, title, section, para_idx, para))])

-----------------------------------------------------------------------------
(* main *)

Titles == {<<"t">>, <<"t", "|", "|", "a", " ", "b">>}

\* the extracts the encyclopedia may hold for a title, before the strip of line 47
Pages == {<<>>,
          <<"p", NL, NL, "q", "q", NL>>,
          <<"=", "=", "a", " ", "b", "|", "|", "L", "e", "a", "d", "=", "=", NL, NL, "p">>}

MinCharsChoices == {1, 2}

Raised == [raised |-> TRUE, extract |-> <<>>]

\* what fetch_plaintext_extract can do: raise, or return the stripped extract
FetchOutcomes == {Raised} \cup {[raised |-> FALSE, extract |-> Strip(p)] : p \in Pages}

Init ==
    /\ seg_text = <<>>
    /\ SegIdle
    /\ MainIdle

NotRunning == pc \in {"idle", "done"}

\* lines 141-157 of an invocation given the titles tl (with none the process
\* exits before any work, lines 149-151)
StartRun(tl, mc, cap) ==
    /\ NotRunning
    /\ tl # <<>>
    /\ fetches + Len(tl) <= MaxFetches
    /\ titles' = tl
    /\ ti' = 1
    /\ min_chars' = mc
    /\ max_paragraphs_per_article' = cap
    /\ existing_ids' = load_existing_ids(file_exists, table)
    /\ all_new_rows' = <<>>
    /\ total_added' = 0
    /\ fetched' = Raised
    /\ kept' = 0
    /\ added' = 0
    /\ rows_before' = Len(DataRows(table))
    /\ fetches' = fetches + Len(tl)
    /\ pc' = "loop"
    /\ UNCHANGED <<file_exists, table, plan>>
    /\ UNCHANGED segvars

\* an invocation with any titles (as many as the bound still leaves) and settings
Invoke ==
    \E n \in 1..(MaxFetches - fetches), mc \in MinCharsChoices, cap \in 0..MaxCap :
        \E tl \in [1..n -> Titles] : StartRun(tl, mc, cap)

InLoop == pc = "loop" /\ ti <= Len(titles)

\* lines 160-164: the fetch raises, the title is skipped
FetchFailed ==
    /\ InLoop
    /\ fetched' = Raised
    /\ ti' = ti + 1
    /\ UNCHANGED <<file_exists, table, pc, titles, min_chars, max_paragraphs_per_article,
                   existing_ids, all_new_rows, total_added, kept, added, rows_before,
                   fetches, plan>>
    /\ UNCHANGED segvars

\* lines 170-199 for the fetched text: segment, filter, identify, dedup, append
Process(text) ==
    /\ InLoop
    /\ fetched' = [raised |-> FALSE, extract |-> text]
    /\ LET sec_paras == split_into_section_paragraphs(text)
           acc == KeepLoop(titles[ti], sec_paras, 1,
                           [kept |-> 0, existing_ids |-> existing_ids,
                            all_new_rows |-> all_new_rows])
           new == Unflushed(acc.all_new_rows, total_added)
       IN /\ kept' = acc.kept
          /\ existing_ids' = acc.existing_ids
          /\ all_new_rows' = acc.all_new_rows
          /\ table' = append_rows(file_exists, table, new)
          /\ file_exists' = TRUE
          /\ added' = Len(new)
          /\ total_added' = total_added + Len(new)
    /\ ti' = ti + 1
    /\ UNCHANGED <<pc, titles, min_chars, max_paragraphs_per_article, rows_before,
                   fetches, plan>>
    /\ UNCHANGED segvars

\* an empty extract that is not skipped
EmptyExtract_FallsThrough == Process(<<>>)

\* lines 166-168: the extract is empty, the title is skipped
EmptyExtract ==
    /\ InLoop
    /\ fetched' = [raised |-> FALSE, extract |-> <<>>]
    /\ ti' = ti + 1
    /\ UNCHANGED <<file_exists, table, pc, titles, min_chars, max_paragraphs_per_article,
                   existing_ids, all_new_rows, total_added, kept, added, rows_before,
                   fetches, plan>>
    /\ UNCHANGED segvars

\* lines 161-200 when the fetch gives a text
ProcessArticle ==
    \E o \in FetchOutcomes : ~o.raised /\ o.extract # <<>> /\ Process(o.extract)

\* lines 202-203: the loop is over
Finish ==
    /\ pc = "loop"
    /\ ti > Len(titles)
    /\ pc' = "done"
    /\ UNCHANGED <<file_exists, table, titles, ti, min_chars, max_paragraphs_per_article,
                   existing_ids, all_new_rows, total_added, fetched, kept, added,
                   rows_before, fetches, plan>>
    /\ UNCHANGED segvars

LoopStep == FetchFailed \/ EmptyExtract \/ ProcessArticle \/ Finish

Next == Invoke \/ FetchFailed \/ EmptyExtract \/ ProcessArticle \/ Finish

Spec == Init /\ [][Next]_vars

\* a started invocation keeps executing its loop
FairSpec == Spec /\ WF_vars(LoopStep)

-----------------------------------------------------------------------------
(* One title run twice with the same page and the same settings *)

RerunPages ==
    (Pages \ {<<>>}) \cup {JoinBlocks(bs) : bs \in UNION {[1..n -> BlockPool] : n \in 1..3}}

Plans == [title : Titles, page : RerunPages, min_chars : MinCharsChoices, cap : 0..MaxCap]

RerunInit ==
    /\ seg_text = <<>>
    /\ SegIdle
    /\ file_exists = FALSE
    /\ table = <<>>
    /\ pc = "idle"
    /\ titles = <<>>
    /\ ti = 1
    /\ min_chars = 0
    /\ max_paragraphs_per_article = 0
    /\ existing_ids = {}
    /\ all_new_rows = <<>>
    /\ total_added = 0
    /\ fetched = Raised
    /\ kept = 0
    /\ added = 0
    /\ rows_before = 0
    /\ fetches = 0
    /\ plan \in Plans

RerunStart ==
    /\ fetches < 2
    /\ StartRun(<<plan.title>>, plan.min_chars, plan.cap)

RerunProcess == Process(Strip(plan.page))

RerunNext == RerunStart \/ RerunProcess \/ Finish

SpecRerun == RerunInit /\ [][RerunNext]_vars

-----------------------------------------------------------------------------
(* Properties of the segmenter *)

\* length of the run of "=" the block opens with
OpenRun(block) == Cardinality({k \in 1..Len(block) : \A i \in 1..k : block[i] = "="})

\* length of the run of "=" the block closes with
CloseRun(block) ==
    Cardinality({k \in 1..Len(block) :
                    \A i \in (Len(block) - k + 1)..Len(block) : block[i] = "="})

\* the loop of the segmenter handles block bi in this step
IterStep == seg_pc = "loop" /\ bi <= Len(blocks) /\ bi' = bi + 1

\* the step keeps the block as a paragraph of the section that was current
KeptAsParagraph ==
    /\ rows' = Append(rows, <<current_section, Strip(blocks[bi]),
                              DictGet(per_section_index, current_section)>>)
    /\ current_section' = current_section

\* C5: a trimmed block whose opening and closing "=" runs (each two or more
\* long) have unequal lengths is kept as a paragraph of the current section
\* and leaves the current section unchanged.
C5_MismatchedMarkersKeptAsParagraph ==
    [][(/\ IterStep
        /\ OpenRun(Strip(blocks[bi])) >= 2
        /\ CloseRun(Strip(blocks[bi])) >= 2
        /\ OpenRun(Strip(blocks[bi])) # CloseRun(Strip(blocks[bi])))
       => KeptAsParagraph]_vars

InnerName(block) == Strip(SubSeq(block, 2, Len(block) - 1))

C7_LocalIndexContiguous ==
    /\ \A i \in 1..Len(rows) :
          rows[i][3] = Cardinality({j \in 1..(i - 1) : rows[j][1] = rows[i][1]})
    /\ (seg_pc = "loop" /\ \A j \in 1..(bi - 1) : BlockKind(blocks[j]) # "heading")
          => \A i \in 1..Len(rows) : rows[i][1] = Lead

\* a call returned paragraphs of "Lead", then of a section that was left and
\* came back, whose counter resumed at 1
C7_Witness ==
    /\ seg_pc = "returned"
    /\ Len(rows) = 4
    /\ rows[1][1] = Lead /\ rows[1][3] = 0
    /\ rows[2][1] = <<"a">> /\ rows[2][3] = 0
    /\ rows[3][1] = <<"b">> /\ rows[3][3] = 0
    /\ rows[4][1] = <<"a">> /\ rows[4][3] = 1

-----------------------------------------------------------------------------
(* Properties of the pipeline *)

\* the loop of main handles title ti in this step
TitleStep == pc = "loop" /\ ti <= Len(titles) /\ ti' = ti + 1

\* the data rows this step added to the csv
NewDataRows == SubSeq(table', (IF file_exists THEN Len(table) ELSE 1) + 1, Len(table'))

\* the paragraphs of the segmentation sp that pass the length filter
Qualifying(sp) == {i \in 1..Len(sp) : Len(sp[i][2]) >= min_chars}

\* the record main builds for paragraph i of the segmentation sp of title t
RecordOf(t, sp, i) ==
    Row(make_paragraph_id(t, sp[i][1], sp[i][3], sp[i][2]), t, sp[i][1], sp[i][3], sp[i][2])

\* C1: the second of two invocations on the same title, with the same article
\* text and the same settings, on the table the first one left, writes no row.
C1_RerunAddsNothing == (pc = "done" /\ fetches = 2) => total_added = 0

\* C2: no two data rows of the output table carry the same id, in any
\* reachable state, between the per-title appends included.
C2_IdsUnique ==
    \A i, j \in 2..Len(table) : i # j => table[i].id # table[j].id

\* an invocation on a table that held rows met a paragraph that passes the
\* length filter and whose id an earlier row carries, and wrote nothing
C2_Witness ==
    /\ pc = "loop"
    /\ ti > 1
    /\ ~fetched.raised
    /\ rows_before > 0
    /\ max_paragraphs_per_article > 0
    /\ added = 0
    /\ LET sp == split_into_section_paragraphs(fetched.extract)
       IN \E i \in Qualifying(sp) : \E r \in 2..(rows_before + 1) :
             table[r].id = make_paragraph_id(titles[ti - 1], sp[i][1], sp[i][3], sp[i][2])

\* C3: during and after an invocation the data rows of the table are the rows
\* it held when the invocation began followed by the accepted records, each
\* once and in the order of acceptance; the row count grew by their number.
C3_TableGrowth ==
    pc \in {"loop", "done"} =>
        /\ Len(DataRows(table)) = rows_before + Len(all_new_rows)
        /\ SubSeq(DataRows(table), rows_before + 1, Len(DataRows(table))) = all_new_rows
        /\ total_added = Len(all_new_rows)

\* an invocation ended whose last append wrote rows after an earlier append
\* of the same invocation had written rows
C3_Witness ==
    /\ pc = "done"
    /\ Len(titles) >= 2
    /\ added >= 1
    /\ total_added > added

IsPrefix(s, t) == Len(s) <= Len(t) /\ SubSeq(t, 1, Len(s)) = s

\* C4: every step leaves the rows the table held in place and in order (the
\* earlier table is a prefix of the later one), and the header is the first
\* line only: no data row is a header row.
C4_AppendOnly ==
    [][/\ IsPrefix(table, table')
       /\ table' # <<>> => table'[1] = HeaderRow
       /\ \A i \in 2..Len(table') : table'[i] # HeaderRow]_vars

\* an append wrote rows to a table that an earlier invocation had created
C4_Witness ==
    /\ pc = "loop"
    /\ ti > 1
    /\ rows_before >= 1
    /\ added >= 1
    /\ Len(table) = 1 + rows_before + total_added

\* C8: one processing of a title accepts and writes at most
\* max_paragraphs_per_article records.
C8_CapEnforced ==
    [][TitleStep => /\ Len(NewDataRows) <= max_paragraphs_per_article
                    /\ kept' <= max_paragraphs_per_article]_vars

\* a title was processed whose text holds more paragraphs passing the length
\* filter than the cap, and exactly the cap was written
C8_Witness ==
    /\ pc = "loop"
    /\ ti > 1
    /\ ~fetched.raised
    /\ max_paragraphs_per_article >= 1
    /\ kept = max_paragraphs_per_article
    /\ added = kept
    /\ Cardinality(Qualifying(split_into_section_paragraphs(fetched.extract)))
          > max_paragraphs_per_article

\* C9: a title whose fetch raises or gives an empty text leaves the table and
\* the ledger as they were, the loop goes on with the next title of the same
\* list, and every invocation reaches its end.
C9_FetchFailureIsolated ==
    /\ [][(TitleStep /\ (fetched'.raised \/ fetched'.extract = <<>>))
            => /\ table' = table
               /\ file_exists' = file_exists
               /\ existing_ids' = existing_ids
               /\ all_new_rows' = all_new_rows
               /\ titles' = titles
               /\ pc' = "loop"]_vars
    /\ (pc = "loop") ~> (pc = "done")

\* The second title of an invocation on an absent table wrote the first rows
\* of the invocation, although every page holds a paragraph that passes
\* min_chars = 1 and the cap was not 0: the first title was skipped, and the
\* loop went on.
C9_Witness ==
    /\ pc = "done"
    /\ Len(titles) = 2
    /\ rows_before = 0
    /\ min_chars = 1
    /\ max_paragraphs_per_article >= 1
    /\ ~fetched.raised
    /\ added >= 1
    /\ total_added = added

\* C10: the cap counts the paragraphs that pass the length filter, before
\* identification and the ledger: every row one processing writes is the
\* record of one of the first max_paragraphs_per_article paragraphs of length
\* >= min_chars, whatever the ledger holds.
C10_CapCountsLengthQualified ==
    [][(TitleStep /\ ~fetched'.raised)
          => LET sp == split_into_section_paragraphs(fetched'.extract)
                 first == {i \in Qualifying(sp) :
                              Cardinality({j \in Qualifying(sp) : j < i})
                                 < max_paragraphs_per_article}
             IN \A n \in 1..Len(NewDataRows) :
                   \E i \in first : NewDataRows[n] = RecordOf(titles[ti], sp, i)]_vars

====
